---- MODULE Spec2Model ----
(***************************************************************************)
(* veiled_chests: the on-chain program (programs/veiled_chests/src/lib.rs) *)
(* and the confidential circuit (encrypted-ixs/src/lib.rs).                *)
(*                                                                         *)
(* One action per instruction.  An instruction is a ledger transaction: it *)
(* either returns Ok and commits every write, or returns an error and      *)
(* commits nothing.  Each action therefore computes the instruction's      *)
(* result from the pre-state and writes the post-state only when the       *)
(* result is Ok; what it returns is the value of its ..._result operator.  *)
(* Rent, transaction fees and the Arcium fee pool are left out: lamports   *)
(* are counted net of them.                                                *)
(***************************************************************************)
EXTENDS Integers, Sequences, FiniteSets, TLC

\* ------------------------------------------------------------------ bounds
MaxTime == 61           \* the clock stops advancing here
InitPlayerUnits == 2    \* wallet A starts with InitPlayerUnits * MIN_BET, B with one
InitTreasuryUnits == 3  \* the treasury starts with InitTreasuryUnits * MIN_BET
MaxFundedUnits == 4     \* fund_treasury is not called on a treasury above this

\* --------------------------------------------------------- program constants
MIN_CHESTS == 2
MAX_CHESTS == 5
MIN_BET == 10000000
TIMEOUT_SECONDS == 60

\* GameStatus as u8
StatusNone == 0
StatusPending == 1
StatusCompleted == 2
StatusCancelled == 3

\* u64::MAX, cut to 31 bits so that every product stays a machine integer
U64_MAX == 2147483647

\* ----------------------------------------------------------------- inputs
Players == {"A", "B"}
DefaultPubkey == "11111111"
Offsets == {1, 2}
\* A tries every input; B, the other player, plays one kind of game
NumChestsInputs(player) ==
    IF player = "A" THEN (MIN_CHESTS - 1)..(MAX_CHESTS + 1) ELSE {3}
BetInputs(player) ==
    IF player = "A" THEN {MIN_BET - 1, MIN_BET, 2 * MIN_BET} ELSE {MIN_BET}
ChoiceInputs == {1}
RngOutputs == {0, 1}
FundInputs == {MIN_BET}
ClockSteps == {TIMEOUT_SECONDS, TIMEOUT_SECONDS + 1}

VARIABLES
    player_lamports,    \* wallet of each player
    game_lamports,      \* lamports of each player's game PDA (the escrow slot)
    treasury_lamports,  \* lamports of the treasury PDA
    game_account,       \* GameAccount stored in each player's game PDA
    unix_timestamp,     \* Clock::get()?.unix_timestamp
    computations,       \* the cluster's computation account of each offset
    last,               \* the last committed instruction: its name and events
    cancelled           \* history: the queued computations whose game cancel_game
                        \* has refunded

vars == <<player_lamports, game_lamports, treasury_lamports, game_account,
          unix_timestamp, computations, last, cancelled>>

ledger == <<player_lamports, game_lamports, treasury_lamports, game_account>>

\* --------------------------------------------------------------- structures
GameAccount(player, bet_amount, num_chests, status, created_at, computation_offset) ==
    [player |-> player, bet_amount |-> bet_amount, num_chests |-> num_chests,
     status |-> status, created_at |-> created_at,
     computation_offset |-> computation_offset]

GameResultEventStakeOnly(player, player_won, winning_chest, num_chests, bet_amount, payout) ==
    [name |-> "GameResultEvent", player |-> player, player_won |-> player_won,
     winning_chest |-> winning_chest, num_chests |-> num_chests,
     bet_amount |-> bet_amount, payout |-> IF player_won THEN bet_amount ELSE 0]

GameResultEvent(player, player_won, winning_chest, num_chests, bet_amount, payout) ==
    [name |-> "GameResultEvent", player |-> player, player_won |-> player_won,
     winning_chest |-> winning_chest, num_chests |-> num_chests,
     bet_amount |-> bet_amount, payout |-> payout]

GameCancelledEvent(player, bet_amount) ==
    [name |-> "GameCancelledEvent", player |-> player, bet_amount |-> bet_amount]

\* a computation account: "none" (never queued), "queued" (callback owed),
\* "finalized" (callback done, result is what it returned); the callback
\* accounts and the circuit's arguments are fixed when it is queued
NoComputation ==
    [state |-> "none", player |-> DefaultPubkey, choice |-> 0, num_chests |-> 0,
     result |-> ""]

\* what a committed instruction leaves for an observer: its name and the
\* events it emitted
Instruction(op, events) ==
    [op |-> op, events |-> events]

\* ------------------------------------------------------------ pure functions
checked_mul_saturating(a, b) ==
    IF b # 0 /\ a > U64_MAX \div b THEN <<TRUE, U64_MAX>> ELSE <<TRUE, a * b>>

\* u64::checked_mul: <<TRUE, a * b>>, or <<FALSE, 0>> on overflow
checked_mul(a, b) ==
    IF b # 0 /\ a > U64_MAX \div b THEN <<FALSE, 0>> ELSE <<TRUE, a * b>>

lamports_credit_twice(lamports, amount) ==
    lamports + 2 * amount

\* lamports += amount on an account the program owns or pays
lamports_credit(lamports, amount) ==
    lamports + amount

\* u64::checked_sub
checked_sub(a, b) ==
    IF a < b THEN <<FALSE, 0>> ELSE <<TRUE, a - b>>

circuit_play_chest_game_unclamped(choice, num_chests, rng) ==
    LET winning_chest == rng % 256
        player_won == (choice = winning_chest)
    IN  <<player_won, winning_chest>>

\* the circuit: rng is the value ArcisRNG::gen_integer_in_range returned
circuit_play_chest_game(choice, num_chests, rng) ==
    LET winning_chest == (rng % num_chests) % 256
        player_won == (choice = winning_chest)
    IN  <<player_won, winning_chest>>

\* --------------------------------------------------------------------- Init
Init ==
    /\ player_lamports = [p \in Players |->
                             IF p = "A" THEN InitPlayerUnits * MIN_BET ELSE MIN_BET]
    /\ game_lamports = [p \in Players |-> 0]
    /\ treasury_lamports = InitTreasuryUnits * MIN_BET
    /\ game_account = [p \in Players |->
                          GameAccount(DefaultPubkey, 0, 0, StatusNone, 0, 0)]
    /\ unix_timestamp = 0
    /\ computations = [o \in Offsets |-> NoComputation]
    /\ last = Instruction("init_treasury", <<>>)
    /\ cancelled = {}

\* ---------------------------------------------------------- fund_treasury
\* system_program::transfer(funder -> treasury, amount)
fund_treasury(funder, amount) ==
    LET err == IF player_lamports[funder] < amount THEN "InsufficientFunds" ELSE "Ok"
    IN  /\ treasury_lamports + amount <= MaxFundedUnits * MIN_BET
        /\ IF err = "Ok"
           THEN /\ player_lamports' =
                       [player_lamports EXCEPT ![funder] = @ - amount]
                /\ treasury_lamports' = treasury_lamports + amount
                /\ last' = Instruction("fund_treasury", <<>>)
           ELSE UNCHANGED <<player_lamports, treasury_lamports, last>>
        /\ UNCHANGED <<game_lamports, game_account, unix_timestamp, computations,
                       cancelled>>

\* -------------------------------------------------------- play_chest_game
valid_num_chests_from_one(num_chests) ==
    num_chests >= MIN_CHESTS - 1 /\ num_chests <= MAX_CHESTS

valid_num_chests(num_chests) ==
    num_chests >= MIN_CHESTS /\ num_chests <= MAX_CHESTS

valid_bet_amount(bet_amount) ==
    bet_amount >= MIN_BET

no_active_game(game) ==
    \/ game.status = StatusNone
    \/ game.status = StatusCompleted
    \/ game.status = StatusCancelled

queue_computation_unchecked(computation_offset, queue_ok) ==
    TRUE

\* queue_computation creates the computation account of the offset; the
\* cluster may also refuse the request (queue_ok = FALSE)
queue_computation_ok(computation_offset, queue_ok) ==
    queue_ok /\ computations[computation_offset].state = "none"

\* the instruction's result up to the call of queue_computation, in the
\* order the code checks
play_chest_game_checks(player, num_chests, bet_amount) ==
    IF ~valid_num_chests(num_chests) THEN "InvalidChestCount"
    ELSE IF ~valid_bet_amount(bet_amount) THEN "BetTooSmall"
    ELSE IF ~no_active_game(game_account[player]) THEN "GameAlreadyActive"
    ELSE IF player_lamports[player] < bet_amount THEN "InsufficientFunds"
    ELSE "Ok"

play_chest_game_result(player, computation_offset, num_chests, bet_amount, queue_ok) ==
    IF play_chest_game_checks(player, num_chests, bet_amount) # "Ok"
    THEN play_chest_game_checks(player, num_chests, bet_amount)
    ELSE IF ~queue_computation_ok(computation_offset, queue_ok)
         THEN "QueueComputationFailed"
    ELSE "Ok"

\* what queue_computation may answer: it answers only when it is called
QueueOutcomes(player, num_chests, bet_amount) ==
    IF play_chest_game_checks(player, num_chests, bet_amount) = "Ok"
    THEN BOOLEAN ELSE {TRUE}

play_chest_game(player, computation_offset, num_chests, bet_amount, player_choice, queue_ok) ==
    LET err == play_chest_game_result(player, computation_offset, num_chests,
                                      bet_amount, queue_ok)
    IN  /\ IF err = "Ok"
           THEN /\ player_lamports' =
                       [player_lamports EXCEPT ![player] = @ - bet_amount]
                /\ game_lamports' =
                       [game_lamports EXCEPT ![player] = @ + bet_amount]
                /\ game_account' =
                       [game_account EXCEPT ![player] =
                           GameAccount(player, bet_amount, num_chests,
                                       StatusPending, unix_timestamp,
                                       computation_offset)]
                /\ computations' =
                       [computations EXCEPT ![computation_offset] =
                           [state |-> "queued", player |-> player,
                            choice |-> player_choice, num_chests |-> num_chests,
                            result |-> ""]]
                /\ last' = Instruction("play_chest_game", <<>>)
           ELSE UNCHANGED <<player_lamports, game_lamports, game_account,
                            computations, last>>
        /\ UNCHANGED <<treasury_lamports, unix_timestamp, cancelled>>

\* ----------------------------------------------- play_chest_game_callback
game_is_pending_or_completed(game) ==
    game.status = StatusPending \/ game.status = StatusCompleted

game_is_pending(game) ==
    game.status = StatusPending

verify_output_unchecked(verified) ==
    TRUE

\* output.verify_output(cluster_account, computation_account) is Ok
verify_output(verified) ==
    verified

win_payout_net(bet_amount, num_chests) ==
    checked_mul(bet_amount, num_chests - 1)

\* payout = bet_amount.checked_mul(num_chests as u64)
win_payout(bet_amount, num_chests) ==
    checked_mul(bet_amount, num_chests)

\* winnings = payout.checked_sub(bet_amount)
win_winnings(payout, bet_amount) ==
    checked_sub(payout, bet_amount)

treasury_debit_wraps(lamports, winnings) ==
    TRUE

\* treasury lamports -= winnings: a u64 cannot go below zero
treasury_debit_ok(lamports, winnings) ==
    lamports >= winnings

callback_status_pending(game) ==
    game

callback_status_zeroes_bet(game) ==
    [game EXCEPT !.status = StatusCompleted, !.bet_amount = 0]

callback_status_cancelled(game) ==
    [game EXCEPT !.status = StatusCancelled]

\* the status the callback writes
callback_status(game) ==
    [game EXCEPT !.status = StatusCompleted]

\* The instruction's result on the game PDA and wallet of player p, given
\* whether verify_output accepted the output and what the output says.
\* A debit below zero of a PDA's lamports (a panic, or a wrapped balance the
\* runtime rejects as unbalanced) fails the transaction: "LamportsUnderflow".
play_chest_game_callback_result(p, verified, player_won) ==
    LET game == game_account[p]
        payout == win_payout(game.bet_amount, game.num_chests)
        winnings == win_winnings(payout[2], game.bet_amount)
    IN  IF ~verify_output(verified) THEN "AbortedComputation"
        ELSE IF ~game_is_pending(game) THEN "GameNotPending"
        ELSE IF player_won
             THEN IF ~payout[1] THEN "Overflow"
                  ELSE IF game_lamports[p] < game.bet_amount THEN "LamportsUnderflow"
                  ELSE IF ~winnings[1] THEN "Overflow"
                  ELSE IF winnings[2] > 0 /\ ~treasury_debit_ok(treasury_lamports, winnings[2])
                       THEN "LamportsUnderflow"
                  ELSE "Ok"
        ELSE IF game_lamports[p] < game.bet_amount THEN "LamportsUnderflow"
        ELSE "Ok"

\* the callback of computation computation_offset, delivered by the cluster
\* with the callback accounts registered when it was queued; retry: the
\* cluster delivers a failed callback again
play_chest_game_callback(computation_offset, verified, rng, retry) ==
    LET c == computations[computation_offset]
        p == c.player
        game == game_account[p]
        output == circuit_play_chest_game(c.choice, c.num_chests, rng)
        player_won == output[1]
        winning_chest == output[2]
        bet_amount == game.bet_amount
        num_chests == game.num_chests
        payout == win_payout(bet_amount, num_chests)[2]
        winnings == win_winnings(payout, bet_amount)[2]
        err == play_chest_game_callback_result(p, verified, player_won)
        events == IF player_won
                       THEN <<GameResultEvent(game.player, TRUE, winning_chest,
                                              num_chests, bet_amount, payout)>>
                  ELSE <<GameResultEvent(game.player, FALSE, winning_chest,
                                         num_chests, bet_amount, 0)>>
    IN  /\ c.state = "queued"
        /\ last' = IF err = "Ok"
                   THEN Instruction("play_chest_game_callback", events) ELSE last
        /\ computations' =
               [computations EXCEPT ![computation_offset] =
                   IF err = "Ok" \/ ~retry
                   THEN [c EXCEPT !.state = "finalized", !.choice = 0,
                                  !.num_chests = 0, !.result = err]
                   ELSE c]
        /\ cancelled' = IF err = "Ok" \/ ~retry
                        THEN cancelled \ {computation_offset} ELSE cancelled
        /\ IF err = "Ok" /\ player_won
           THEN /\ game_lamports' = [game_lamports EXCEPT ![p] = @ - bet_amount]
                /\ player_lamports' =
                       [player_lamports EXCEPT ![p] =
                           lamports_credit(lamports_credit(@, bet_amount), winnings)]
                /\ treasury_lamports' = treasury_lamports - winnings
                /\ game_account' = [game_account EXCEPT ![p] = callback_status(game)]
           ELSE IF err = "Ok"
           THEN /\ game_lamports' = [game_lamports EXCEPT ![p] = @ - bet_amount]
                /\ treasury_lamports' = lamports_credit(treasury_lamports, bet_amount)
                /\ game_account' = [game_account EXCEPT ![p] = callback_status(game)]
                /\ UNCHANGED player_lamports
           ELSE UNCHANGED <<player_lamports, game_lamports, treasury_lamports,
                            game_account>>
        /\ UNCHANGED unix_timestamp

\* ------------------------------------------------------------ cancel_game
game_timed_out_after_double(current_time, created_at) ==
    current_time - created_at > 2 * TIMEOUT_SECONDS

game_timed_out_at_deadline(current_time, created_at) ==
    current_time - created_at >= TIMEOUT_SECONDS

\* current_time - game.created_at > 60
game_timed_out(current_time, created_at) ==
    current_time - created_at > TIMEOUT_SECONDS

cancel_status_reset(game) ==
    [game EXCEPT !.status = StatusNone]

cancel_status_kept(game) ==
    game

\* the status cancel_game writes
cancel_status(game) ==
    [game EXCEPT !.status = StatusCancelled]

cancel_game_accounts_unconstrained(player, game) ==
    IF game_account[game].status = StatusNone THEN "AccountNotInitialized"
    ELSE "Ok"

\* CancelGame: the game account must hold a GameAccount, be the PDA of the
\* player account passed, and name that player
cancel_game_accounts(player, game) ==
    IF game_account[game].status = StatusNone THEN "AccountNotInitialized"
    ELSE IF game # player THEN "ConstraintSeeds"
    ELSE IF game_account[game].player # player THEN "NotGamePlayer"
    ELSE "Ok"

cancel_game_result(player, game) ==
    IF cancel_game_accounts(player, game) # "Ok"
    THEN cancel_game_accounts(player, game)
    ELSE IF ~game_is_pending(game_account[game]) THEN "GameNotPending"
    ELSE IF ~game_timed_out(unix_timestamp, game_account[game].created_at)
         THEN "GameNotTimedOut"
    ELSE IF game_lamports[game] < game_account[game].bet_amount
         THEN "LamportsUnderflow"
    ELSE "Ok"

\* signer: who signed the transaction; the instruction has no Signer account
cancel_game(signer, player, game) ==
    LET err == cancel_game_result(player, game)
        bet_amount == game_account[game].bet_amount
        player_key == game_account[game].player
    IN  /\ IF err = "Ok"
           THEN /\ game_lamports' = [game_lamports EXCEPT ![game] = @ - bet_amount]
                /\ player_lamports' =
                       [player_lamports EXCEPT ![player] =
                           lamports_credit(@, bet_amount)]
                /\ game_account' =
                       [game_account EXCEPT ![game] = cancel_status(game_account[game])]
                /\ last' = Instruction("cancel_game",
                                       <<GameCancelledEvent(player_key, bet_amount)>>)
           ELSE UNCHANGED <<player_lamports, game_lamports, game_account, last>>
        /\ cancelled' =
               IF err = "Ok"
                  /\ computations[game_account[game].computation_offset].state = "queued"
               THEN cancelled \cup {game_account[game].computation_offset}
               ELSE cancelled
        /\ UNCHANGED <<treasury_lamports, unix_timestamp, computations>>

\* ------------------------------------------------------------------ clock
advance_clock(seconds) ==
    /\ unix_timestamp + seconds <= MaxTime
    /\ unix_timestamp' = unix_timestamp + seconds
    /\ UNCHANGED <<player_lamports, game_lamports, treasury_lamports,
                   game_account, computations, last, cancelled>>

\* ------------------------------------------------------------------- Next
Next ==
    \/ \E funder \in Players, amount \in FundInputs :
           fund_treasury(funder, amount)
    \/ \E player \in Players, computation_offset \in Offsets :
       \E num_chests \in NumChestsInputs(player), bet_amount \in BetInputs(player),
          player_choice \in ChoiceInputs :
       \E queue_ok \in QueueOutcomes(player, num_chests, bet_amount) :
           play_chest_game(player, computation_offset, num_chests, bet_amount,
                           player_choice, queue_ok)
    \/ \E computation_offset \in Offsets, verified \in BOOLEAN,
          rng \in RngOutputs, retry \in BOOLEAN :
           play_chest_game_callback(computation_offset, verified, rng, retry)
    \/ \E signer \in Players, player \in Players, game \in Players :
           cancel_game(signer, player, game)
    \/ \E seconds \in ClockSteps :
           advance_clock(seconds)

Spec == Init /\ [][Next]_vars

\* ------------------------------------------------- stakes at the u64 limit
\* The same program with one player whose stakes sit on either side of
\* U64_MAX / MAX_CHESTS, so that bet_amount * num_chests can pass U64_MAX.
OverflowBetInputs ==
    {U64_MAX \div MAX_CHESTS, (U64_MAX \div MAX_CHESTS) + 1}

InitOverflow ==
    /\ player_lamports = [p \in Players |->
                             IF p = "A" THEN 2 * ((U64_MAX \div MAX_CHESTS) + 1)
                             ELSE 0]
    /\ game_lamports = [p \in Players |-> 0]
    /\ treasury_lamports = MIN_BET
    /\ game_account = [p \in Players |->
                          GameAccount(DefaultPubkey, 0, 0, StatusNone, 0, 0)]
    /\ unix_timestamp = 0
    /\ computations = [o \in Offsets |-> NoComputation]
    /\ last = Instruction("init_treasury", <<>>)
    /\ cancelled = {}

NextOverflow ==
    \/ \E amount \in FundInputs :
           fund_treasury("A", amount)
    \/ \E computation_offset \in Offsets, num_chests \in {MIN_CHESTS, MAX_CHESTS},
          bet_amount \in OverflowBetInputs, player_choice \in ChoiceInputs :
       \E queue_ok \in QueueOutcomes("A", num_chests, bet_amount) :
           play_chest_game("A", computation_offset, num_chests, bet_amount,
                           player_choice, queue_ok)
    \/ \E computation_offset \in Offsets, verified \in BOOLEAN,
          rng \in RngOutputs, retry \in BOOLEAN :
           play_chest_game_callback(computation_offset, verified, rng, retry)
    \/ \E signer \in Players :
           cancel_game(signer, "A", "A")
    \/ \E seconds \in ClockSteps :
           advance_clock(seconds)

SpecOverflow == InitOverflow /\ [][NextOverflow]_vars

\* ------------------------------------------------------- fair scheduling
\* The same program where the clock keeps advancing and every player keeps
\* calling cancel_game on their own record.  The clock stops at MaxTime, so
\* games are submitted only while their deadline lies before MaxTime.
LiveClockSteps == {TIMEOUT_SECONDS + 1}

deadline_in_horizon ==
    unix_timestamp + TIMEOUT_SECONDS < MaxTime

advance_clock_live ==
    \E seconds \in LiveClockSteps : advance_clock(seconds)

NextLive ==
    \/ \E funder \in Players, amount \in FundInputs :
           fund_treasury(funder, amount)
    \/ \E player \in Players, computation_offset \in Offsets :
       \E num_chests \in NumChestsInputs(player), bet_amount \in BetInputs(player),
          player_choice \in ChoiceInputs :
       \E queue_ok \in QueueOutcomes(player, num_chests, bet_amount) :
           /\ deadline_in_horizon
           /\ play_chest_game(player, computation_offset, num_chests, bet_amount,
                              player_choice, queue_ok)
    \/ \E computation_offset \in Offsets, verified \in BOOLEAN,
          rng \in RngOutputs, retry \in BOOLEAN :
           play_chest_game_callback(computation_offset, verified, rng, retry)
    \/ \E signer \in Players, player \in Players, game \in Players :
           cancel_game(signer, player, game)
    \/ advance_clock_live

SpecLive ==
    /\ Init
    /\ [][NextLive]_vars
    /\ WF_vars(advance_clock_live)
    /\ \A p \in Players : WF_vars(cancel_game(p, p, p))

\* ------------------------------------------------------------ the circuit
\* The cluster executing the circuit on a queued computation, for every
\* choice a u8 ciphertext may hold and for generator outputs inside and
\* outside [0, num_chests) (outside: rejection sampling used up its attempts).
CircuitChoices == 0..MAX_CHESTS \cup {255}
CircuitRngOutputs == 0..(2 * MAX_CHESTS + 1) \cup {255, 256, 257, U64_MAX}

InitCircuit ==
    /\ player_lamports = [p \in Players |->
                             IF p = "A" THEN InitPlayerUnits * MIN_BET ELSE MIN_BET]
    /\ game_lamports = [p \in Players |-> 0]
    /\ treasury_lamports = InitTreasuryUnits * MIN_BET
    /\ game_account = [p \in Players |->
                          GameAccount(DefaultPubkey, 0, 0, StatusNone, 0, 0)]
    /\ unix_timestamp = 0
    /\ \E choice \in CircuitChoices, num_chests \in MIN_CHESTS..MAX_CHESTS :
           computations =
               [o \in Offsets |->
                   IF o = 1
                   THEN [state |-> "queued", player |-> "A", choice |-> choice,
                         num_chests |-> num_chests, result |-> ""]
                   ELSE NoComputation]
    /\ last = Instruction("init_treasury", <<>>)
    /\ cancelled = {}

\* the cluster runs play_chest_game (the circuit) and reveals its output
execute_circuit(computation_offset, rng) ==
    LET c == computations[computation_offset]
        output == circuit_play_chest_game(c.choice, c.num_chests, rng)
    IN  /\ c.state = "queued"
        /\ computations' =
               [computations EXCEPT ![computation_offset] =
                   [c EXCEPT !.state = "executed",
                             !.result = [rng |-> rng, player_won |-> output[1],
                                         winning_chest |-> output[2]]]]
        /\ UNCHANGED <<player_lamports, game_lamports, treasury_lamports,
                       game_account, unix_timestamp, last, cancelled>>

NextCircuit ==
    \E computation_offset \in Offsets, rng \in CircuitRngOutputs :
        execute_circuit(computation_offset, rng)

SpecCircuit == InitCircuit /\ [][NextCircuit]_vars

\* =================================================================== claims
RECURSIVE SumOver(_, _)
SumOver(lamports, accounts) ==
    IF accounts = {} THEN 0
    ELSE LET a == CHOOSE x \in accounts : TRUE
         IN  lamports[a] + SumOver(lamports, accounts \ {a})

Terminal(status) ==
    status = StatusCompleted \/ status = StatusCancelled

\* the record and wallet a queued computation's callback works on
CallbackPlayer(computation_offset) ==
    computations[computation_offset].player

\* what the circuit reveals for a queued computation
CallbackWon(computation_offset, rng) ==
    circuit_play_chest_game(computations[computation_offset].choice,
                            computations[computation_offset].num_chests, rng)[1]

\* C1: a verified callback that reports a win and succeeds pays the player
\* bet_amount * num_chests (the stake from the escrow slot, the rest from the
\* treasury), debits the treasury by bet_amount * (num_chests - 1), empties
\* the escrow slot and completes the record; the record's num_chests is in
\* 2..5 and its bet_amount at least MIN_BET.
C1_WinPaysStakeTimesChests ==
    [][\A o \in Offsets, rng \in RngOutputs, retry \in BOOLEAN :
         LET p == CallbackPlayer(o)
             game == game_account[p]
         IN  ( /\ play_chest_game_callback(o, TRUE, rng, retry)
               /\ CallbackWon(o, rng)
               /\ play_chest_game_callback_result(p, TRUE, TRUE) = "Ok" )
             => /\ game.num_chests \in MIN_CHESTS..MAX_CHESTS
                /\ game.bet_amount >= MIN_BET
                /\ player_lamports'[p] =
                       player_lamports[p] + game.bet_amount * game.num_chests
                /\ treasury_lamports' =
                       treasury_lamports - game.bet_amount * (game.num_chests - 1)
                /\ game_lamports[p] = game.bet_amount
                /\ game_lamports'[p] = 0
                /\ game_account'[p].status = StatusCompleted
      ]_vars

\* C1 witness: a win on five chests has been paid
C1_Witness ==
    /\ last.op = "play_chest_game_callback"
    /\ last.events[1].player_won
    /\ last.events[1].num_chests = MAX_CHESTS
    /\ last.events[1].payout = MAX_CHESTS * last.events[1].bet_amount
    /\ game_account[last.events[1].player].status = StatusCompleted

\* C2: a verified callback that reports a loss and succeeds moves bet_amount
\* from the escrow slot to the treasury, leaves every wallet as it was and
\* completes the record.
C2_LossForfeitsStake ==
    [][\A o \in Offsets, rng \in RngOutputs, retry \in BOOLEAN :
         LET p == CallbackPlayer(o)
             game == game_account[p]
         IN  ( /\ play_chest_game_callback(o, TRUE, rng, retry)
               /\ ~CallbackWon(o, rng)
               /\ play_chest_game_callback_result(p, TRUE, FALSE) = "Ok" )
             => /\ game_lamports[p] = game.bet_amount
                /\ game_lamports'[p] = 0
                /\ treasury_lamports' = treasury_lamports + game.bet_amount
                /\ player_lamports' = player_lamports
                /\ game_account'[p].status = StatusCompleted
      ]_vars

\* C2 witness: a loss of a double stake has been collected
C2_Witness ==
    /\ last.op = "play_chest_game_callback"
    /\ ~last.events[1].player_won
    /\ last.events[1].bet_amount = 2 * MIN_BET
    /\ game_account[last.events[1].player].status = StatusCompleted
    /\ game_lamports[last.events[1].player] = 0

\* C3: on a Completed record every further verified callback and every
\* cancel_game returns GameNotPending and leaves wallets, escrow slots,
\* treasury and records as they were.
C3_SettledOnce ==
    [][\A p \in Players :
         game_account[p].status = StatusCompleted =>
            /\ cancel_game_result(p, p) = "GameNotPending"
            /\ \A signer \in Players :
                  cancel_game(signer, p, p) => UNCHANGED ledger
            /\ \A o \in Offsets, rng \in RngOutputs, retry \in BOOLEAN :
                  ( /\ play_chest_game_callback(o, TRUE, rng, retry)
                    /\ CallbackPlayer(o) = p )
                  => /\ play_chest_game_callback_result(p, TRUE, CallbackWon(o, rng))
                            = "GameNotPending"
                     /\ UNCHANGED ledger
      ]_vars

\* C3 witness: a second callback for a player's record has been delivered
\* and the record is Completed with its escrow slot empty
C3_Witness ==
    \E p \in Players :
        /\ game_account[p].status = StatusCompleted
        /\ game_lamports[p] = 0
        /\ \E o \in Offsets :
              /\ computations[o].state = "finalized"
              /\ computations[o].player = p
              /\ computations[o].result = "GameNotPending"
              /\ game_account[p].computation_offset = o

\* C4: funds leave an escrow slot only by taking its record from Pending to
\* Completed or Cancelled, bet_amount at a time; a successful callback or
\* cancel_game finds its record Pending and leaves it terminal, and a terminal
\* record becomes Pending again only by a new play_chest_game that escrows a
\* new stake.  So one submission's stake leaves the escrow slot at most once.
C4_OneExitPerSubmission ==
    [][\A p \in Players :
         LET game == game_account[p]
         IN  /\ game_lamports'[p] < game_lamports[p] =>
                   /\ game.status = StatusPending
                   /\ Terminal(game_account'[p].status)
                   /\ game_lamports[p] - game_lamports'[p] = game.bet_amount
                   /\ game_lamports'[p] = 0
             /\ \A signer \in Players :
                   (cancel_game(signer, p, p) /\ cancel_game_result(p, p) = "Ok")
                   => /\ game.status = StatusPending
                      /\ game_account'[p].status = StatusCancelled
             /\ \A o \in Offsets, rng \in RngOutputs, retry \in BOOLEAN :
                   ( /\ play_chest_game_callback(o, TRUE, rng, retry)
                     /\ CallbackPlayer(o) = p
                     /\ play_chest_game_callback_result(p, TRUE, CallbackWon(o, rng))
                            = "Ok" )
                   => /\ game.status = StatusPending
                      /\ game_account'[p].status = StatusCompleted
             /\ Terminal(game.status) =>
                   \/ game_account'[p] = game /\ game_lamports'[p] = game_lamports[p]
                   \/ /\ game_account'[p].status = StatusPending
                      /\ game_lamports'[p] =
                             game_lamports[p] + game_account'[p].bet_amount
      ]_vars

\* C4 witness: cancel_game and the callback of one submission were both
\* tried; cancel_game won and the callback was turned away
C4_Witness ==
    \E p \in Players :
        /\ game_account[p].status = StatusCancelled
        /\ game_lamports[p] = 0
        /\ computations[game_account[p].computation_offset].state = "finalized"
        /\ computations[game_account[p].computation_offset].result = "GameNotPending"

\* C5: a callback of a computation whose game cancel_game has refunded
\* returns an error (GameNotPending when its output verifies) and leaves
\* wallets, escrow slots, treasury and records as they were.
C5_CancelledRequestRejected ==
    [][\A o \in cancelled, verified \in BOOLEAN, rng \in RngOutputs,
          retry \in BOOLEAN :
         play_chest_game_callback(o, verified, rng, retry)
         => /\ play_chest_game_callback_result(
                   CallbackPlayer(o), verified, CallbackWon(o, rng))
                   = (IF verified THEN "GameNotPending" ELSE "AbortedComputation")
            /\ UNCHANGED ledger
      ]_vars

\* C6: a callback settles only the record that stores its computation
\* offset, and a computation settles at most once.
C6_ResultSingleUse ==
    [][\A o \in Offsets, rng \in RngOutputs, retry \in BOOLEAN :
         ( /\ play_chest_game_callback(o, TRUE, rng, retry)
           /\ play_chest_game_callback_result(
                  CallbackPlayer(o), TRUE, CallbackWon(o, rng)) = "Ok" )
         => /\ game_account[CallbackPlayer(o)].computation_offset = o
            /\ computations[o].result # "Ok"
            /\ computations'[o].state = "finalized"
      ]_vars

\* C7: cancel_game on a Pending record returns GameNotTimedOut and changes
\* nothing while unix_timestamp - created_at <= 60; past that it moves
\* bet_amount from the escrow slot to the player and sets Cancelled.
C7_CancelAfterTimeoutOnly ==
    [][\A p \in Players :
         LET game == game_account[p]
         IN  game.status = StatusPending =>
                IF unix_timestamp - game.created_at <= TIMEOUT_SECONDS
                THEN /\ cancel_game_result(p, p) = "GameNotTimedOut"
                     /\ \A signer \in Players :
                           cancel_game(signer, p, p) => UNCHANGED ledger
                ELSE /\ cancel_game_result(p, p) = "Ok"
                     /\ \A signer \in Players :
                           cancel_game(signer, p, p)
                           => /\ game_lamports'[p] = game_lamports[p] - game.bet_amount
                              /\ game_lamports'[p] = 0
                              /\ player_lamports' =
                                     [player_lamports EXCEPT ![p] = @ + game.bet_amount]
                              /\ treasury_lamports' = treasury_lamports
                              /\ game_account' =
                                     [game_account EXCEPT ![p].status = StatusCancelled]
      ]_vars

\* C7 witness: a game cancelled 61 seconds after it was created
C7_Witness ==
    /\ last.op = "cancel_game"
    /\ LET p == last.events[1].player
       IN  /\ game_account[p].status = StatusCancelled
           /\ unix_timestamp - game_account[p].created_at = TIMEOUT_SECONDS + 1
           /\ game_lamports[p] = 0

\* C8: cancel_game in a transaction signed by someone other than the
\* record's player returns NotGamePlayer and changes nothing (stated for a
\* Pending record past its deadline, where nothing else stops the call).
C8_OnlyPlayerCancels ==
    [][\A signer \in Players, p \in Players :
         ( /\ cancel_game(signer, p, p)
           /\ signer # game_account[p].player
           /\ game_account[p].status = StatusPending
           /\ game_timed_out(unix_timestamp, game_account[p].created_at) )
         => /\ cancel_game_result(p, p) = "NotGamePlayer"
            /\ UNCHANGED ledger
      ]_vars

\* C9, the results: num_chests outside 2..5 gives InvalidChestCount; else
\* bet_amount < MIN_BET gives BetTooSmall; else a Pending record gives
\* GameAlreadyActive.
C9_Rejects ==
    \A p \in Players, o \in Offsets, queue_ok \in BOOLEAN :
    \A n \in NumChestsInputs(p), bet \in BetInputs(p) :
        LET r == play_chest_game_result(p, o, n, bet, queue_ok)
        IN  /\ n \notin MIN_CHESTS..MAX_CHESTS => r = "InvalidChestCount"
            /\ (n \in MIN_CHESTS..MAX_CHESTS /\ bet < MIN_BET) => r = "BetTooSmall"
            /\ ( /\ n \in MIN_CHESTS..MAX_CHESTS
                 /\ bet >= MIN_BET
                 /\ game_account[p].status = StatusPending )
               => r = "GameAlreadyActive"

\* C9, the effect: the only steps in which play_chest_game writes a record
\* or moves a stake are those where none of the three applies: the record
\* written has num_chests in 2..5 and bet_amount >= MIN_BET, and was not
\* Pending; a rejected call is no step at all.
C9_NoMutation ==
    (last'.op = "play_chest_game" /\ game_account' # game_account)
    => \E p \in Players :
          /\ game_account'[p].num_chests \in MIN_CHESTS..MAX_CHESTS
          /\ game_account'[p].bet_amount >= MIN_BET
          /\ game_account[p].status # StatusPending
          /\ game_account'[p].status = StatusPending
          /\ game_lamports'[p] = game_lamports[p] + game_account'[p].bet_amount
          /\ player_lamports'[p] = player_lamports[p] - game_account'[p].bet_amount
          /\ \A q \in Players \ {p} :
                /\ game_account'[q] = game_account[q]
                /\ game_lamports'[q] = game_lamports[q]
                /\ player_lamports'[q] = player_lamports[q]

\* C9: play_chest_game is rejected before any state mutation or fund
\* movement: InvalidChestCount, BetTooSmall or GameAlreadyActive, with the
\* wallet, the escrow slot and the record as before the call.
C9_SubmitRejectedUnchanged ==
    [](C9_Rejects) /\ [][C9_NoMutation]_vars

\* C9 witness: a player with a Pending game who could pay for another and
\* has a free computation offset is turned away with GameAlreadyActive
C9_Witness ==
    \E o \in Offsets :
        /\ game_account["A"].status = StatusPending
        /\ player_lamports["A"] >= MIN_BET
        /\ computations[o].state = "none"
        /\ last.op = "play_chest_game"
        /\ play_chest_game_result("A", o, MIN_CHESTS, MIN_BET, TRUE)
               = "GameAlreadyActive"

\* C10, the refund stays open: cancel_game on a Pending record past its
\* deadline returns Ok
C10_RefundOpen ==
    \A p \in Players :
        ( /\ game_account[p].status = StatusPending
          /\ unix_timestamp - game_account[p].created_at > TIMEOUT_SECONDS )
        => cancel_game_result(p, p) = "Ok"

\* C10, the callback: output that fails verification gives
\* AbortedComputation and changes no wallet, escrow slot, treasury or record
C10_AbortedChangesNothing ==
    \A o \in Offsets, rng \in RngOutputs, retry \in BOOLEAN :
        play_chest_game_callback(o, FALSE, rng, retry)
        => /\ play_chest_game_callback_result(
                  CallbackPlayer(o), FALSE, CallbackWon(o, rng))
                  = "AbortedComputation"
           /\ UNCHANGED ledger

\* C10: a callback whose output fails verification returns
\* AbortedComputation and mutates nothing: a Pending record stays Pending
\* with its escrow, and cancel_game past the deadline still succeeds
\* (refunding bet_amount, as C7 states).
C10_AbortedKeepsRefund ==
    [](C10_RefundOpen) /\ [][C10_AbortedChangesNothing]_vars

\* C10 witness: the callback of a Pending game was aborted, the stake is
\* still in escrow, the deadline has passed and cancel_game would return Ok
C10_Witness ==
    \E p \in Players :
        /\ game_account[p].status = StatusPending
        /\ game_lamports[p] = game_account[p].bet_amount
        /\ computations[game_account[p].computation_offset].state = "finalized"
        /\ computations[game_account[p].computation_offset].result
               = "AbortedComputation"
        /\ unix_timestamp - game_account[p].created_at > TIMEOUT_SECONDS
        /\ cancel_game_result(p, p) = "Ok"

\* C11: the treasury is never negative; a verified winning callback on a
\* Pending record whose winnings bet_amount * (num_chests - 1) exceed the
\* treasury returns an error and moves nothing, not even the stake, and the
\* record stays Pending with its stake, so cancel_game past the deadline
\* still returns Ok.
C11_TreasuryShort(p) ==
    /\ game_account[p].status = StatusPending
    /\ treasury_lamports
           < game_account[p].bet_amount * (game_account[p].num_chests - 1)

C11_ShortChangesNothing ==
    \A o \in Offsets, rng \in RngOutputs, retry \in BOOLEAN :
        ( /\ play_chest_game_callback(o, TRUE, rng, retry)
          /\ CallbackWon(o, rng)
          /\ C11_TreasuryShort(CallbackPlayer(o)) )
        => /\ play_chest_game_callback_result(CallbackPlayer(o), TRUE, TRUE) # "Ok"
           /\ UNCHANGED ledger
           /\ game_timed_out(unix_timestamp,
                             game_account[CallbackPlayer(o)].created_at)
              => cancel_game_result(CallbackPlayer(o), CallbackPlayer(o)) = "Ok"

C11_TreasuryNeverNegative ==
    [](treasury_lamports >= 0) /\ [][C11_ShortChangesNothing]_vars

\* C11 witness: a winning callback was turned away for lack of treasury
\* funds; the record is still Pending with its stake in escrow
C11_Witness ==
    \E p \in Players :
        /\ C11_TreasuryShort(p)
        /\ game_lamports[p] = game_account[p].bet_amount
        /\ computations[game_account[p].computation_offset].state = "finalized"
        /\ computations[game_account[p].computation_offset].result
               = "LamportsUnderflow"

\* C12: a verified winning callback on a Pending record whose
\* bet_amount * num_chests exceeds U64_MAX returns Overflow, moves nothing
\* and leaves the record Pending; when the product fits, the payout paid and
\* reported is the exact product.
C12_ProductOverflows(p) ==
    /\ game_account[p].status = StatusPending
    /\ game_account[p].bet_amount > U64_MAX \div game_account[p].num_chests

C12_OverflowRejected ==
    [][\A o \in Offsets, rng \in RngOutputs, retry \in BOOLEAN :
         LET p == CallbackPlayer(o)
             game == game_account[p]
         IN  ( /\ play_chest_game_callback(o, TRUE, rng, retry)
               /\ CallbackWon(o, rng)
               /\ game.status = StatusPending )
             => IF C12_ProductOverflows(p)
                THEN /\ play_chest_game_callback_result(p, TRUE, TRUE) = "Overflow"
                     /\ UNCHANGED ledger
                ELSE play_chest_game_callback_result(p, TRUE, TRUE) = "Ok"
                     => /\ last'.events[1].payout = game.bet_amount * game.num_chests
                        /\ player_lamports'[p] =
                               player_lamports[p] + game.bet_amount * game.num_chests
      ]_vars

\* C12 witness: a winning callback was turned away with Overflow and the
\* record is still Pending with its stake in escrow
C12_Witness ==
    \E p \in Players :
        /\ C12_ProductOverflows(p)
        /\ game_lamports[p] = game_account[p].bet_amount
        /\ computations[game_account[p].computation_offset].state = "finalized"
        /\ computations[game_account[p].computation_offset].result = "Overflow"

\* C13: a record's status changes only from None, Completed or Cancelled to
\* Pending by play_chest_game, from Pending to Completed by
\* play_chest_game_callback, and from Pending to Cancelled by cancel_game.
C13_StatusTransitions ==
    [][\A p \in Players :
         LET from == game_account[p].status
             to == game_account'[p].status
         IN  to # from =>
                \/ /\ from \in {StatusNone, StatusCompleted, StatusCancelled}
                   /\ to = StatusPending
                   /\ last'.op = "play_chest_game"
                \/ /\ from = StatusPending
                   /\ to = StatusCompleted
                   /\ last'.op = "play_chest_game_callback"
                \/ /\ from = StatusPending
                   /\ to = StatusCancelled
                   /\ last'.op = "cancel_game"
      ]_vars

\* C13 witness: a record that was Completed by one computation's callback
\* is Pending again for another computation
C13_Witness ==
    \E p \in Players, o \in Offsets :
        /\ game_account[p].status = StatusPending
        /\ game_account[p].computation_offset # o
        /\ computations[game_account[p].computation_offset].state = "queued"
        /\ computations[o].player = p
        /\ computations[o].state = "finalized"
        /\ computations[o].result = "Ok"

\* C14: with the clock advancing and each player calling cancel_game on
\* their own record, every Pending record eventually becomes Completed or
\* Cancelled, whatever the cluster does (no callback, callbacks that fail
\* verification, callbacks that fail to settle).
C14_NoStuckFunds ==
    \A p \in Players :
        (game_account[p].status = StatusPending)
            ~> Terminal(game_account[p].status)

\* C14 witness: a record was Cancelled and refunded while its computation
\* is still waiting for a callback that never came
C14_Witness ==
    \E p \in Players :
        /\ game_account[p].status = StatusCancelled
        /\ game_lamports[p] = 0
        /\ computations[game_account[p].computation_offset].state = "queued"
        /\ computations[game_account[p].computation_offset].player = p
        /\ last.op = "cancel_game"

\* C15: for num_chests in 2..5, every choice and every generator output,
\* the revealed winning_chest is in [0, num_chests) and the revealed
\* player_won is true exactly when the choice equals winning_chest.
C15_FairDraw ==
    \A o \in Offsets :
        computations[o].state = "executed" =>
            LET c == computations[o]
            IN  /\ c.num_chests \in MIN_CHESTS..MAX_CHESTS
                /\ c.result.winning_chest \in 0..(c.num_chests - 1)
                /\ c.result.winning_chest = c.result.rng % c.num_chests
                /\ c.result.player_won <=> (c.choice = c.result.winning_chest)

\* C15 witness: the generator returned a value outside [0, num_chests) and
\* the player won on the clamped chest
C15_Witness ==
    \E o \in Offsets :
        /\ computations[o].state = "executed"
        /\ computations[o].result.rng >= computations[o].num_chests
        /\ computations[o].result.player_won
        /\ computations[o].choice = computations[o].result.winning_chest

\* C16, the states: an escrow slot holds lamports only under a Pending
\* record, and then exactly its bet_amount
C16_NoEscrowWithoutPending ==
    \A p \in Players :
        game_lamports[p] > 0 =>
            /\ game_account[p].status = StatusPending
            /\ game_lamports[p] = game_account[p].bet_amount

\* C16, the call: a play_chest_game that passes its checks and whose
\* queue_computation fails returns that error
C16_DispatchFailureIsError ==
    \A player \in Players, o \in Offsets :
    \A n \in NumChestsInputs(player), bet \in BetInputs(player) :
        play_chest_game_checks(player, n, bet) = "Ok"
        => play_chest_game_result(player, o, n, bet, FALSE)
               = "QueueComputationFailed"

\* C16, the effect: a stake enters an escrow slot, and a record is written,
\* only in a step that also creates the computation the record names; a
\* call whose dispatch fails is no step at all
C16_CommitsWithDispatch ==
    \A p \in Players :
        (game_lamports'[p] > game_lamports[p] \/ game_account'[p] # game_account[p])
        => \/ /\ game_account[p].status = StatusPending
              /\ Terminal(game_account'[p].status)
           \/ /\ game_account'[p].status = StatusPending
              /\ game_lamports'[p] = game_account'[p].bet_amount
              /\ computations[game_account'[p].computation_offset].state = "none"
              /\ computations'[game_account'[p].computation_offset].state = "queued"
              /\ computations'[game_account'[p].computation_offset].player = p

\* C16: when dispatch of the computation fails, play_chest_game returns an
\* error and the whole call is rolled back (wallet, escrow slot and record
\* as before); no state holds a wager in escrow without a Pending record.
C16_DispatchFailureLosesNothing ==
    /\ [](C16_NoEscrowWithoutPending /\ C16_DispatchFailureIsError)
    /\ [][C16_CommitsWithDispatch]_vars

\* C16 witness: a player whose earlier game was settled, with funds for
\* another and a free computation offset, has a submission refused by
\* queue_computation; the escrow slot is empty and the record terminal
C16_Witness ==
    \E o \in Offsets :
        /\ Terminal(game_account["A"].status)
        /\ game_lamports["A"] = 0
        /\ computations[o].state = "none"
        /\ play_chest_game_checks("A", MAX_CHESTS, MIN_BET) = "Ok"
        /\ play_chest_game_result("A", o, MAX_CHESTS, MIN_BET, FALSE)
               = "QueueComputationFailed"

\* C17, settlement: the step that completes a record is a
\* play_chest_game_callback that emits exactly one GameResultEvent: player,
\* num_chests and bet_amount are the record's, player_won and winning_chest
\* are the output of a queued computation of that player, and payout is
\* bet_amount * num_chests on a win and 0 on a loss.
C17_ResultEvent ==
    \A p \in Players :
        LET game == game_account[p]
        IN  (game.status = StatusPending /\ game_account'[p].status = StatusCompleted)
            => /\ last'.op = "play_chest_game_callback"
               /\ Len(last'.events) = 1
               /\ \E o \in Offsets, rng \in RngOutputs :
                      LET output == circuit_play_chest_game(
                                        computations[o].choice,
                                        computations[o].num_chests, rng)
                      IN  /\ computations[o].state = "queued"
                          /\ computations[o].player = p
                          /\ last'.events[1] =
                                 [name |-> "GameResultEvent",
                                  player |-> game.player,
                                  player_won |-> output[1],
                                  winning_chest |-> output[2],
                                  num_chests |-> game.num_chests,
                                  bet_amount |-> game.bet_amount,
                                  payout |-> IF output[1]
                                             THEN game.bet_amount * game.num_chests
                                             ELSE 0]
                          /\ output[1] <=> (player_lamports'[p] > player_lamports[p])

\* C17, cancellation: the step that cancels a record is a cancel_game that
\* emits exactly one GameCancelledEvent with the record's player and
\* bet_amount.
C17_CancelledEvent ==
    \A p \in Players :
        LET game == game_account[p]
        IN  (game.status = StatusPending /\ game_account'[p].status = StatusCancelled)
            => last' = [op |-> "cancel_game",
                        events |-> <<[name |-> "GameCancelledEvent",
                                      player |-> game.player,
                                      bet_amount |-> game.bet_amount]>>]

\* C17, failure: events appear only in steps that complete or cancel a
\* record; a step that moves no lamports and writes no record (all that a
\* failed instruction leaves) emits nothing.
C17_NoEventOnFailure ==
    last' # last =>
        /\ ledger' # ledger
        /\ last'.events # <<>> =>
               \E p \in Players :
                   /\ game_account[p].status = StatusPending
                   /\ Terminal(game_account'[p].status)

\* C17: every successful callback emits exactly one GameResultEvent that
\* matches the settled record and the verified output, every successful
\* cancel_game exactly one GameCancelledEvent, and a failed instruction none.
C17_Events ==
    [][C17_ResultEvent /\ C17_CancelledEvent /\ C17_NoEventOnFailure]_vars

\* C17 witness: a loss on five chests was reported with payout 0 and
\* winning chest 0
C17_Witness ==
    /\ last.op = "play_chest_game_callback"
    /\ Len(last.events) = 1
    /\ last.events[1].name = "GameResultEvent"
    /\ ~last.events[1].player_won
    /\ last.events[1].winning_chest = 0
    /\ last.events[1].num_chests = MAX_CHESTS
    /\ last.events[1].payout = 0

\* C18, the steps: a step that changes a Pending record is a
\* play_chest_game_callback or cancel_game and changes its status only;
\* any other change of a record is a play_chest_game writing a new one.
C18_OnlyStatusChanges ==
    \A p \in Players :
        game_account'[p] # game_account[p] =>
            IF game_account[p].status = StatusPending
            THEN /\ last'.op \in {"play_chest_game_callback", "cancel_game"}
                 /\ game_account'[p] =
                        [game_account[p] EXCEPT !.status = game_account'[p].status]
            ELSE /\ last'.op = "play_chest_game"
                 /\ game_account'[p].status = StatusPending

\* C18, the states: a record that was ever written names its player, has
\* num_chests in 2..5 and bet_amount at least MIN_BET
C18_FieldsValid ==
    \A p \in Players :
        game_account[p].status # StatusNone =>
            /\ game_account[p].player = p
            /\ game_account[p].num_chests \in MIN_CHESTS..MAX_CHESTS
            /\ game_account[p].bet_amount >= MIN_BET

\* C18: play_chest_game_callback and cancel_game change only the status of
\* a record; player, bet_amount, num_chests (in 2..5), created_at and
\* computation_offset keep the values play_chest_game wrote until the next
\* successful play_chest_game.
C18_RecordFrame ==
    [](C18_FieldsValid) /\ [][C18_OnlyStatusChanges]_vars

\* C18 witness: a record written at time 0 for computation 2 with a double
\* stake on four chests has been settled or cancelled and still holds them
C18_Witness ==
    \E p \in Players :
        /\ Terminal(game_account[p].status)
        /\ last.op \in {"play_chest_game_callback", "cancel_game"}
        /\ last.events[1].player = p
        /\ game_account[p] =
               GameAccount(p, 2 * MIN_BET, 4, game_account[p].status, 0, 2)

\* C19: in every state the escrow slot of a record holds exactly its
\* bet_amount when the record is Pending and nothing when it is None,
\* Completed or Cancelled.
C19_EscrowTracksStatus ==
    \A p \in Players :
        game_lamports[p] =
            IF game_account[p].status = StatusPending
            THEN game_account[p].bet_amount
            ELSE 0

\* C19 witness: one player's record is Pending with a double stake in
\* escrow while the other's was cancelled and its escrow slot is empty
C19_Witness ==
    /\ game_account["A"].status = StatusPending
    /\ game_lamports["A"] = 2 * MIN_BET
    /\ game_account["B"].status = StatusCancelled
    /\ game_account["B"].bet_amount = MIN_BET
    /\ game_lamports["B"] = 0

\* C20: the lamports of all wallets, all escrow slots and the treasury add
\* up to what they were at the start, in every state reached by any sequence
\* of fund_treasury, play_chest_game, play_chest_game_callback and
\* cancel_game, and no balance is negative.
C20_Conservation ==
    /\ SumOver(player_lamports, Players) + SumOver(game_lamports, Players)
           + treasury_lamports
       = (InitPlayerUnits + 1 + InitTreasuryUnits) * MIN_BET
    /\ \A p \in Players : player_lamports[p] >= 0 /\ game_lamports[p] >= 0
    /\ treasury_lamports >= 0

\* C20 witness: the treasury has paid winnings to A, who holds more than at
\* the start, while B's stake sits in escrow
C20_Witness ==
    /\ treasury_lamports < InitTreasuryUnits * MIN_BET
    /\ player_lamports["A"] > InitPlayerUnits * MIN_BET
    /\ game_lamports["B"] = MIN_BET
    /\ game_account["A"].status = StatusCompleted

\* what belongs to one player: record, escrow slot and wallet
PlayerState(p) ==
    <<game_account[p], game_lamports[p], player_lamports[p]>>

\* C21: a step changes the record, escrow slot or wallet of at most one
\* player, and that player is the one the instruction acts on: the player
\* whose record play_chest_game writes, or the player of the record that
\* play_chest_game_callback or cancel_game settles; between players' games
\* only the treasury is shared.
C21_Isolation ==
    [][\A p \in Players :
         PlayerState(p)' # PlayerState(p) =>
            /\ \A q \in Players \ {p} : PlayerState(q)' = PlayerState(q)
            /\ game_account'[p] # game_account[p] => game_account'[p].player = p
            /\ (last' # last /\ last'.events # <<>>) => last'.events[1].player = p
      ]_vars

\* C21 witness: A's game was cancelled and refunded while B's game is
\* Pending with its stake in escrow
C21_Witness ==
    /\ last.op = "cancel_game"
    /\ last.events[1].player = "A"
    /\ game_account["A"].status = StatusCancelled
    /\ game_account["B"].status = StatusPending
    /\ game_lamports["B"] = MIN_BET
    /\ player_lamports["B"] = 0

====
